---- MODULE Spec2Model ----
(***************************************************************************)
(* A model of the Microsoft 365 collaboration provider                     *)
(* (src/amplifier_module_tool_m365/providers/m365.py).                     *)
(*                                                                         *)
(* Every public coroutine of M365Provider is a short sequence of awaited   *)
(* network calls.  The model has one action per stretch of code between    *)
(* two suspension points: a Call action runs the method up to its first    *)
(* await (or to its return / raise), a response action takes the vendor's  *)
(* answer and runs the method up to the next await.  The vendor's answers  *)
(* are nondeterministic inputs.                                            *)
(*                                                                         *)
(* Text that the code parses (the webhook list, channel names) is a        *)
(* sequence of one-character strings; opaque identifiers are TLA+ strings. *)
(***************************************************************************)
EXTENDS Integers, Sequences, FiniteSets, TLC

VARIABLES
    environ,    \* os.environ: a function from the names that are set to their values
    ctor_arg,   \* the `config` argument M365Provider(...) was constructed with
    provider,   \* the outcome of the constructor: not constructed / ok with _config / raised
    pc,         \* the suspension point the running coroutine is parked at, or "idle"
    call,       \* the method being run (or last run) and its arguments
    locals,     \* the running coroutine's local variables that live across awaits
    net,        \* the network calls issued by the current (or last) call, with their answers
    ret         \* the outcome of the last call: pending / return value / raised error

vars == <<environ, ctor_arg, provider, pc, call, locals, net, ret>>

(***************************************************************************)
(* Python values                                                           *)
(***************************************************************************)

\* None where a str (an opaque TLA+ string) is expected
None == "<None>"

\* None where parsed text (a sequence of characters) is expected
NoneText == <<"<None>">>

\* Python truthiness of an Optional[str]: None and "" are falsy
Truthy(v) == v # None /\ v # ""

\* Python truthiness of Optional text
TruthyText(s) == s # NoneText /\ s # <<>>

\* `x or default` on an Optional[str]
OrElse(v, default) == IF Truthy(v) THEN v ELSE default

Min(a, b) == IF a < b THEN a ELSE b

\* seq[:n] for n >= 0
Slice(seq, n) == SubSeq(seq, 1, Min(n, Len(seq)))

\* a ValueError raised by the provider's own code
ValueError(text, detail) == [cls |-> "ValueError", text |-> text, detail |-> detail]

\* an AttributeError raised by reading a field of a None response
AttributeError == [cls |-> "AttributeError", text |-> "NoneType has no attribute", detail |-> <<>>]

\* an error raised by the transport / vendor SDK (authentication, rate limit, network)
TransportError == [cls |-> "TransportError", text |-> "vendor call failed", detail |-> <<>>]

Pending == [kind |-> "pending"]
Return(v) == [kind |-> "return", value |-> v]
Raise(e) == [kind |-> "raise", error |-> e]

(***************************************************************************)
(* Text operations used by the configuration loader                        *)
(***************************************************************************)

Whitespace == {" "}

\* c in s
Contains(s, c) == \E i \in 1..Len(s) : s[i] = c

\* the index of the first c in s, 0 when there is none
IndexOf(s, c) ==
    IF Contains(s, c) THEN CHOOSE i \in 1..Len(s) : s[i] = c /\ \A j \in 1..(i - 1) : s[j] # c
    ELSE 0

\* s.split(sep): the pieces between the separators, always at least one piece
RECURSIVE Split(_, _)
Split(s, sep) ==
    IF ~Contains(s, sep) THEN <<s>>
    ELSE LET i == IndexOf(s, sep)
         IN  <<SubSeq(s, 1, i - 1)>> \o Split(SubSeq(s, i + 1, Len(s)), sep)

\* s.split(sep, 1) for an s that contains sep: the text before and after the first sep
SplitOnce(s, sep) ==
    LET i == IndexOf(s, sep)
    IN  <<SubSeq(s, 1, i - 1), SubSeq(s, i + 1, Len(s))>>

RECURSIVE LStrip(_)
LStrip(s) == IF s # <<>> /\ Head(s) \in Whitespace THEN LStrip(Tail(s)) ELSE s

RECURSIVE RStrip(_)
RStrip(s) ==
    IF s # <<>> /\ s[Len(s)] \in Whitespace THEN RStrip(SubSeq(s, 1, Len(s) - 1)) ELSE s

\* s.strip()
Strip(s) == RStrip(LStrip(s))

\* d[k] = v on a dict modelled as a function
DictSet(d, k, v) == [x \in DOMAIN d \cup {k} |-> IF x = k THEN v ELSE d[x]]

\* d.get(k) on a dict of text
DictGet(d, k) == IF k \in DOMAIN d THEN d[k] ELSE NoneText

EmptyDict == [x \in {} |-> <<>>]

(***************************************************************************)
(* M365Config.from_env                                                     *)
(***************************************************************************)

RequiredVars == <<"M365_TENANT_ID", "M365_CLIENT_ID", "M365_CLIENT_SECRET">>

WebhookVar == "M365_TEAMS_WEBHOOKS"

\* os.environ.get(k) for a credential variable
EnvGet(env, k) == IF k \in DOMAIN env THEN env[k] ELSE None

\* os.environ.get("M365_TEAMS_WEBHOOKS", "")
EnvGetWebhooks(env) == IF WebhookVar \in DOMAIN env THEN env[WebhookVar] ELSE <<>>

\* a loader that reports only the first missing variable
MissingVarsFirstOnly(env) ==
    Slice(SelectSeq(RequiredVars, LAMBDA k : ~Truthy(EnvGet(env, k))), 1)

\* the list comprehension of lines 47-55: the required variables whose value is falsy
MissingVars(env) == SelectSeq(RequiredVars, LAMBDA k : ~Truthy(EnvGet(env, k)))

\* a parser that keeps the first URL given for a name
ParsePairFirstWins(webhooks, pair) ==
    IF Contains(pair, "=")
    THEN LET nu == SplitOnce(pair, "=")
         IN  IF Strip(nu[1]) \in DOMAIN webhooks THEN webhooks
             ELSE DictSet(webhooks, Strip(nu[1]), Strip(nu[2]))
    ELSE webhooks

\* lines 65-67, one iteration of the loop over the comma-separated pairs
ParsePair(webhooks, pair) ==
    IF Contains(pair, "=")
    THEN LET nu == SplitOnce(pair, "=")
         IN  DictSet(webhooks, Strip(nu[1]), Strip(nu[2]))
    ELSE webhooks

RECURSIVE ParsePairs(_, _)
ParsePairs(webhooks, pairs) ==
    IF pairs = <<>> THEN webhooks
    ELSE ParsePairs(ParsePair(webhooks, Head(pairs)), Tail(pairs))

\* lines 60-67
ParseWebhooks(webhook_str) ==
    IF webhook_str # <<>> THEN ParsePairs(EmptyDict, Split(webhook_str, ",")) ELSE EmptyDict

\* M365Config.from_env(): the configuration, or the ValueError it raises
from_env(env) ==
    IF MissingVars(env) # <<>>
    THEN Raise(ValueError("Missing required environment variables", MissingVars(env)))
    ELSE Return([tenant_id     |-> EnvGet(env, "M365_TENANT_ID"),
                 client_id     |-> EnvGet(env, "M365_CLIENT_ID"),
                 client_secret |-> EnvGet(env, "M365_CLIENT_SECRET"),
                 webhooks      |-> ParseWebhooks(EnvGetWebhooks(env))])

(***************************************************************************)
(* M365Provider.__init__                                                   *)
(***************************************************************************)

\* self._config as __init__ sets it: the config argument is not read
InitConfig(config, env) == from_env(env)

Unconstructed == [state |-> "unconstructed"]

\* M365Provider(config): the provider holding _config, or the error raised
Construct(config) ==
    /\ provider = Unconstructed
    /\ ctor_arg' = config
    /\ LET r == InitConfig(config, environ)
       IN  provider' = IF r.kind = "return"
                       THEN [state |-> "ok", config |-> r.value]
                       ELSE [state |-> "raised", error |-> r.error]
    /\ UNCHANGED <<environ, pc, call, locals, net, ret>>

(***************************************************************************)
(* The Graph client: requests and the vendor's answers                     *)
(***************************************************************************)

\* the answer to an awaited Graph call: the call raised, returned None, returned a
\* collection whose .value is None, or returned a collection / an object
Awaiting == [kind |-> "awaiting"]
RespRaise == [kind |-> "raise"]
RespNone == [kind |-> "none"]
RespNoValue == [kind |-> "novalue"]
RespValue(v) == [kind |-> "value", value |-> v]

\* `result.value or []`
ValueOrEmpty(resp) == IF resp.kind = "value" THEN resp.value ELSE <<>>

\* a request being sent: appended to the calls of the running method
Issue(log, request) == Append(log, [request |-> request, resp |-> Awaiting])

\* the answer to the request in flight (always the last one issued)
Answered(log, resp) == [log EXCEPT ![Len(log)].resp = resp]

\* the control state a stretch of code leaves behind
Parked(at, l, log) == [pc |-> at, ret |-> Pending, locals |-> l, net |-> log]
Finished(outcome, l, log) == [pc |-> "idle", ret |-> outcome, locals |-> l, net |-> log]

NoLocals == [none |-> TRUE]

\* the running coroutine moves to control state f
Resume(f) ==
    /\ pc' = f.pc
    /\ ret' = f.ret
    /\ locals' = f.locals
    /\ net' = f.net

\* a method is entered with the given arguments and runs to control state f
Enter(args, f) ==
    /\ provider.state = "ok"
    /\ call' = args
    /\ Resume(f)
    /\ UNCHANGED <<environ, ctor_arg, provider>>

\* the answer to the request in flight arrives; the method runs to control state f
Answer(f) ==
    /\ Resume(f)
    /\ UNCHANGED <<environ, ctor_arg, provider, call>>

(***************************************************************************)
(* M365Provider.post_message                                               *)
(***************************************************************************)

\* a lookup that tests `webhook_url is None`
WebhookUnresolvedIsNone(webhook_url) == webhook_url = NoneText

\* line 233: `if not webhook_url`
WebhookUnresolved(webhook_url) == ~TruthyText(webhook_url)

\* lines 241-248: the card shape when a title is given, the plain shape otherwise
BuildPayload(message, title) ==
    IF TruthyText(title)
    THEN [type     |-> "MessageCard",
          summary  |-> title,
          sections |-> <<[activityTitle |-> title, text |-> message]>>]
    ELSE [text |-> message]

\* lines 232-251: post_message up to its await: the lookup, then the raise or the POST
PmCall(webhooks, channel_name, message, title) ==
    LET webhook_url == DictGet(webhooks, channel_name)
    IN  IF WebhookUnresolved(webhook_url)
        THEN Finished(Raise(ValueError("No webhook configured for channel",
                                       <<channel_name, DOMAIN webhooks>>)),
                      NoLocals, <<>>)
        ELSE Parked("post_message:post", NoLocals,
                    Issue(<<>>, [op |-> "http.post", url |-> webhook_url,
                                 json |-> BuildPayload(message, title)]))

\* line 252: the webhook answered with an HTTP status, or the transport raised
PmOnPost(log, resp) ==
    IF resp.kind = "raise"
    THEN Finished(Raise(TransportError), NoLocals, log)
    ELSE Finished(Return(resp.value = 200), NoLocals, log)

PostMessageCall(channel_name, message, title) ==
    /\ pc = "idle"
    /\ Enter([method |-> "post_message", channel_name |-> channel_name, message |-> message,
              title |-> title],
             PmCall(provider.config.webhooks, channel_name, message, title))

PostMessageResponse(resp) ==
    /\ pc = "post_message:post"
    /\ Answer(PmOnPost(Answered(net, resp), resp))

(***************************************************************************)
(* M365Provider.list_channels                                              *)
(***************************************************************************)

\* line 167: the number of teams whose channels are fetched
TeamLimit == 5

\* lines 145-150: a Channel of the team given by the caller
ChannelOfTeamId(ch, team_id) ==
    [id          |-> OrElse(ch.id, ""),
     name        |-> OrElse(ch.display_name, ""),
     description |-> ch.description,
     team_id     |-> team_id]

\* lines 176-182: a Channel of an enumerated team
ChannelOfTeam(ch, team) ==
    [id          |-> OrElse(ch.id, ""),
     name        |-> OrElse(ch.display_name, ""),
     description |-> ch.description,
     team_id     |-> team.id,
     team_name   |-> team.display_name]

\* a loop over every enumerated team
TeamsToQueryAll(teams) == teams

\* line 167: `(teams.value or [])[:5]`
TeamsToQuery(teams) == Slice(teams, TeamLimit)

\* lines 167-170: the next team at or after position `from` that has an id, 0 if none
NextTeam(teams, from) ==
    LET with_id == {j \in from..Len(TeamsToQuery(teams)) : Truthy(teams[j].id)}
    IN  IF with_id = {} THEN 0 ELSE CHOOSE j \in with_id : \A k \in with_id : j <= k

\* lines 167-187: the loop from position `from` up to its next channel fetch, or to
\* the return when no team is left
LcLoop(teams, from, all_channels, log) ==
    LET j == NextTeam(teams, from)
        l == [teams |-> teams, i |-> j, all_channels |-> all_channels]
    IN  IF j = 0
        THEN Finished(Return(all_channels), l, log)
        ELSE Parked("list_channels:channels", l,
                    Issue(log, [op |-> "teams.channels.get", team_id |-> teams[j].id]))

\* lines 141-143 and 155-164: list_channels up to its first await
LcCall(team_id) ==
    IF Truthy(team_id)
    THEN Parked("list_channels:direct", NoLocals,
                Issue(<<>>, [op |-> "teams.channels.get", team_id |-> team_id]))
    ELSE Parked("list_channels:groups", NoLocals,
                Issue(<<>>, [op |-> "groups.get",
                             filter |-> "resourceProvisioningOptions/Any(x:x eq 'Team')"]))

\* lines 143-152: the channels of the given team arrived
LcOnDirect(team_id, log, resp) ==
    CASE resp.kind = "raise" -> Finished(Raise(TransportError), NoLocals, log)
      [] resp.kind = "none"  -> Finished(Raise(AttributeError), NoLocals, log)
      [] OTHER ->
            LET value == ValueOrEmpty(resp)
            IN  Finished(Return([k \in 1..Len(value) |-> ChannelOfTeamId(value[k], team_id)]),
                         NoLocals, log)

\* lines 164-167: the enumeration of the teams arrived
LcOnGroups(log, resp) ==
    CASE resp.kind = "raise" -> Finished(Raise(TransportError), NoLocals, log)
      [] resp.kind = "none"  -> Finished(Raise(AttributeError), NoLocals, log)
      [] OTHER -> LcLoop(ValueOrEmpty(resp), 1, <<>>, log)

\* a loop without the try / except: a failed fetch ends the call
LcOnChannelsPropagates(l, log, resp) ==
    CASE resp.kind = "raise" -> Finished(Raise(TransportError), l, log)
      [] resp.kind = "none"  -> Finished(Raise(AttributeError), l, log)
      [] OTHER ->
            LET value == ValueOrEmpty(resp)
                team  == l.teams[l.i]
            IN  LcLoop(l.teams, l.i + 1,
                       l.all_channels \o [k \in 1..Len(value) |-> ChannelOfTeam(value[k], team)],
                       log)

\* lines 168-185: the channels of team l.i arrived, or the fetch raised
LcOnChannels(l, log, resp) ==
    IF resp.kind \in {"raise", "none"}
    THEN \* except Exception: continue
         LcLoop(l.teams, l.i + 1, l.all_channels, log)
    ELSE LET value == ValueOrEmpty(resp)
             team  == l.teams[l.i]
         IN  LcLoop(l.teams, l.i + 1,
                    l.all_channels \o [k \in 1..Len(value) |-> ChannelOfTeam(value[k], team)],
                    log)

ListChannelsCall(team_id) ==
    /\ pc = "idle"
    /\ Enter([method |-> "list_channels", team_id |-> team_id], LcCall(team_id))

ListChannelsDirectResponse(resp) ==
    /\ pc = "list_channels:direct"
    /\ Answer(LcOnDirect(call.team_id, Answered(net, resp), resp))

ListChannelsGroupsResponse(resp) ==
    /\ pc = "list_channels:groups"
    /\ Answer(LcOnGroups(Answered(net, resp), resp))

ListChannelsChannelsResponse(resp) ==
    /\ pc = "list_channels:channels"
    /\ Answer(LcOnChannels(locals, Answered(net, resp), resp))

(***************************************************************************)
(* M365Provider.list_users, get_user                                       *)
(***************************************************************************)

\* lines 114-119 and 128-133: `user.mail or user.user_principal_name`
UserOf(user) ==
    [id           |-> OrElse(user.id, ""),
     display_name |-> OrElse(user.display_name, ""),
     email        |-> IF Truthy(user.mail) THEN user.mail ELSE user.user_principal_name,
     department   |-> user.department]

\* lines 104-111: list_users up to its await
LuCall(limit) ==
    Parked("list_users:users", NoLocals, Issue(<<>>, [op |-> "users.get", top |-> limit]))

\* lines 113-121
LuOnUsers(log, resp) ==
    CASE resp.kind = "raise" -> Finished(Raise(TransportError), NoLocals, log)
      [] resp.kind = "none"  -> Finished(Raise(AttributeError), NoLocals, log)
      [] OTHER ->
            LET value == ValueOrEmpty(resp)
            IN  Finished(Return([k \in 1..Len(value) |-> UserOf(value[k])]), NoLocals, log)

\* line 125: get_user up to its await
GuCall(user_id) ==
    Parked("get_user:user", NoLocals,
           Issue(<<>>, [op |-> "users.by_user_id.get", user_id |-> user_id]))

\* lines 126-133
GuOnUser(user_id, log, resp) ==
    CASE resp.kind = "raise" -> Finished(Raise(TransportError), NoLocals, log)
      [] resp.kind = "none"  ->
            Finished(Raise(ValueError("User not found", <<user_id>>)), NoLocals, log)
      [] OTHER -> Finished(Return(UserOf(resp.value)), NoLocals, log)

ListUsersCall(limit) ==
    /\ pc = "idle"
    /\ Enter([method |-> "list_users", limit |-> limit], LuCall(limit))

ListUsersResponse(resp) ==
    /\ pc = "list_users:users"
    /\ Answer(LuOnUsers(Answered(net, resp), resp))

GetUserCall(user_id) ==
    /\ pc = "idle"
    /\ Enter([method |-> "get_user", user_id |-> user_id], GuCall(user_id))

GetUserResponse(resp) ==
    /\ pc = "get_user:user"
    /\ Answer(GuOnUser(call.user_id, Answered(net, resp), resp))

(***************************************************************************)
(* M365Provider.get_messages                                               *)
(***************************************************************************)

\* line 192: the default of `limit`
DefaultLimit == 20

\* lines 207-209: the author's display name, "Unknown" when there is none
SenderOf(msg) ==
    IF msg.from_.present /\ msg.from_.user.present
    THEN OrElse(msg.from_.user.display_name, "Unknown")
    ELSE "Unknown"

\* lines 212-220; str(created_date_time) of a date that is kept as its text
MessageOf(msg, channel_id) ==
    [id         |-> OrElse(msg.id, ""),
     content    |-> IF msg.body.present THEN msg.body.content ELSE "",
     sender     |-> SenderOf(msg),
     timestamp  |-> IF Truthy(msg.created_date_time) THEN msg.created_date_time ELSE "",
     channel_id |-> channel_id]

\* a check that tests `team_id is None`: an empty team_id reaches the network
GmCallIsNone(channel_id, limit, team_id) ==
    IF team_id = None
    THEN Finished(Raise(ValueError("team_id is required for M365 channel messages", <<>>)),
                  NoLocals, <<>>)
    ELSE Parked("get_messages:messages", NoLocals,
                Issue(<<>>, [op |-> "teams.channels.messages.get", team_id |-> team_id,
                             channel_id |-> channel_id]))

\* lines 196-203: get_messages up to its await, or to the raise when team_id is missing
GmCall(channel_id, limit, team_id) ==
    IF ~Truthy(team_id)
    THEN Finished(Raise(ValueError("team_id is required for M365 channel messages", <<>>)),
                  NoLocals, <<>>)
    ELSE Parked("get_messages:messages", NoLocals,
                Issue(<<>>, [op |-> "teams.channels.messages.get", team_id |-> team_id,
                             channel_id |-> channel_id]))

\* lines 205-223, for limit >= 0
GmOnMessages(channel_id, limit, log, resp) ==
    CASE resp.kind = "raise" -> Finished(Raise(TransportError), NoLocals, log)
      [] resp.kind = "none"  -> Finished(Raise(AttributeError), NoLocals, log)
      [] OTHER ->
            LET value == Slice(ValueOrEmpty(resp), limit)
            IN  Finished(Return([k \in 1..Len(value) |-> MessageOf(value[k], channel_id)]),
                         NoLocals, log)

GetMessagesCall(channel_id, limit, team_id) ==
    /\ pc = "idle"
    /\ Enter([method |-> "get_messages", channel_id |-> channel_id, limit |-> limit,
              team_id |-> team_id],
             GmCall(channel_id, limit, team_id))

GetMessagesResponse(resp) ==
    /\ pc = "get_messages:messages"
    /\ Answer(GmOnMessages(call.channel_id, call.limit, Answered(net, resp), resp))

(***************************************************************************)
(* M365Provider.list_tasks                                                 *)
(***************************************************************************)

\* lines 371-376
TaskOf(task) ==
    [id       |-> OrElse(task.id, ""),
     title    |-> OrElse(task.title, ""),
     status   |-> IF task.percent_complete = 100 THEN "complete" ELSE "in_progress",
     due_date |-> IF Truthy(task.due_date_time) THEN task.due_date_time ELSE None]

\* a check that tests `plan_id is None`: an empty plan_id reaches the network
LtCallIsNone(plan_id) ==
    IF plan_id = None
    THEN Finished(Return(<<>>), NoLocals, <<>>)
    ELSE Parked("list_tasks:tasks", NoLocals,
                Issue(<<>>, [op |-> "planner.plans.tasks.get", plan_id |-> plan_id]))

\* lines 362-368: list_tasks up to its await, or to the empty return without a plan
LtCall(plan_id) ==
    IF ~Truthy(plan_id)
    THEN Finished(Return(<<>>), NoLocals, <<>>)
    ELSE Parked("list_tasks:tasks", NoLocals,
                Issue(<<>>, [op |-> "planner.plans.tasks.get", plan_id |-> plan_id]))

\* lines 370-378
LtOnTasks(log, resp) ==
    CASE resp.kind = "raise" -> Finished(Raise(TransportError), NoLocals, log)
      [] resp.kind = "none"  -> Finished(Raise(AttributeError), NoLocals, log)
      [] OTHER ->
            LET value == ValueOrEmpty(resp)
            IN  Finished(Return([k \in 1..Len(value) |-> TaskOf(value[k])]), NoLocals, log)

ListTasksCall(plan_id) ==
    /\ pc = "idle"
    /\ Enter([method |-> "list_tasks", plan_id |-> plan_id], LtCall(plan_id))

ListTasksResponse(resp) ==
    /\ pc = "list_tasks:tasks"
    /\ Answer(LtOnTasks(Answered(net, resp), resp))

(***************************************************************************)
(* M365Provider.list_documents, upload_document                            *)
(***************************************************************************)

\* lines 274 and 318: the folder is a real sub-folder, not the drive root
IsSubFolder(folder_path) == Truthy(folder_path) /\ folder_path # "root"

\* line 289: the path given to every listed Document
ListedPath(folder_path) == OrElse(folder_path, "/")

\* lines 286-293
DocumentOf(item, folder_path) ==
    [id        |-> OrElse(item.id, ""),
     name      |-> OrElse(item.name, ""),
     path      |-> ListedPath(folder_path),
     web_url   |-> item.web_url,
     size      |-> item.size,
     is_folder |-> item.folder # None]

\* lines 274-283: the children request for the folder, sent to the site
LdChildren(folder_path, site_id, log) ==
    Parked("list_documents:children", [site_id |-> site_id],
           Issue(log, IF IsSubFolder(folder_path)
                      THEN [op |-> "sites.drive.root.item_with_path.children.get",
                            site_id |-> site_id, path |-> folder_path]
                      ELSE [op |-> "sites.drive.root.children.get", site_id |-> site_id]))

\* lines 264-266: list_documents up to its first await
LdCall(folder_path, site_id) ==
    IF ~Truthy(site_id)
    THEN Parked("list_documents:sites", NoLocals, Issue(<<>>, [op |-> "sites.get"]))
    ELSE LdChildren(folder_path, site_id, <<>>)

\* lines 267-272: the sites arrived; the first one is the default site
LdOnSites(folder_path, log, resp) ==
    CASE resp.kind = "raise" -> Finished(Raise(TransportError), NoLocals, log)
      [] resp.kind \in {"none", "novalue"} -> Finished(Return(<<>>), NoLocals, log)
      [] resp.value = <<>> -> Finished(Return(<<>>), NoLocals, log)
      [] ~Truthy(resp.value[1].id) -> Finished(Return(<<>>), NoLocals, log)
      [] OTHER -> LdChildren(folder_path, resp.value[1].id, log)

\* lines 285-295
LdOnChildren(folder_path, l, log, resp) ==
    CASE resp.kind = "raise" -> Finished(Raise(TransportError), l, log)
      [] resp.kind = "none"  -> Finished(Raise(AttributeError), l, log)
      [] OTHER ->
            LET value == ValueOrEmpty(resp)
            IN  Finished(Return([k \in 1..Len(value) |-> DocumentOf(value[k], folder_path)]),
                         l, log)

ListDocumentsCall(folder_path, site_id) ==
    /\ pc = "idle"
    /\ Enter([method |-> "list_documents", folder_path |-> folder_path, site_id |-> site_id],
             LdCall(folder_path, site_id))

ListDocumentsSitesResponse(resp) ==
    /\ pc = "list_documents:sites"
    /\ Answer(LdOnSites(call.folder_path, Answered(net, resp), resp))

ListDocumentsChildrenResponse(resp) ==
    /\ pc = "list_documents:children"
    /\ Answer(LdOnChildren(call.folder_path, locals, Answered(net, resp), resp))

\* lines 314-315: text content is encoded to bytes
Encode(content) ==
    IF content.type = "str" THEN [type |-> "bytes", data |-> content.data] ELSE content

\* lines 317-319: the destination path
UploadPath(name, folder_path) ==
    IF IsSubFolder(folder_path) THEN folder_path \o "/" \o name ELSE name

\* line 328: `result.id if result else ""`
UploadedId(resp) == IF resp.kind = "none" THEN "" ELSE resp.value.id

\* lines 314-325: the upload request, sent to the site
UdPut(name, content, folder_path, site_id, log) ==
    Parked("upload_document:put", [site_id |-> site_id],
           Issue(log, [op |-> "sites.drive.root.item_with_path.content.put",
                       site_id |-> site_id, path |-> UploadPath(name, folder_path),
                       content |-> Encode(content)]))

\* lines 305-306: upload_document up to its first await
UdCall(name, content, folder_path, site_id) ==
    IF ~Truthy(site_id)
    THEN Parked("upload_document:sites", NoLocals, Issue(<<>>, [op |-> "sites.get"]))
    ELSE UdPut(name, content, folder_path, site_id, <<>>)

\* lines 307-312
UdOnSites(name, content, folder_path, log, resp) ==
    CASE resp.kind = "raise" -> Finished(Raise(TransportError), NoLocals, log)
      [] resp.kind \in {"none", "novalue"} ->
            Finished(Raise(ValueError("No SharePoint sites available", <<>>)), NoLocals, log)
      [] resp.value = <<>> ->
            Finished(Raise(ValueError("No SharePoint sites available", <<>>)), NoLocals, log)
      [] ~Truthy(resp.value[1].id) ->
            Finished(Raise(ValueError("SharePoint site has no ID", <<>>)), NoLocals, log)
      [] OTHER -> UdPut(name, content, folder_path, resp.value[1].id, log)

\* lines 327-332
UdOnPut(name, folder_path, l, log, resp) ==
    IF resp.kind = "raise"
    THEN Finished(Raise(TransportError), l, log)
    ELSE Finished(Return([id      |-> UploadedId(resp),
                          name    |-> name,
                          path    |-> UploadPath(name, folder_path),
                          web_url |-> IF resp.kind = "none" THEN None ELSE resp.value.web_url]),
                  l, log)

UploadDocumentCall(name, content, folder_path, site_id) ==
    /\ pc = "idle"
    /\ Enter([method |-> "upload_document", name |-> name, content |-> content,
              folder_path |-> folder_path, site_id |-> site_id],
             UdCall(name, content, folder_path, site_id))

UploadDocumentSitesResponse(resp) ==
    /\ pc = "upload_document:sites"
    /\ Answer(UdOnSites(call.name, call.content, call.folder_path, Answered(net, resp), resp))

UploadDocumentPutResponse(resp) ==
    /\ pc = "upload_document:put"
    /\ Answer(UdOnPut(call.name, call.folder_path, locals, Answered(net, resp), resp))

(***************************************************************************)
(* The configuration specification: the process environment is any bounded *)
(* environment, the provider is constructed from it, messages are posted.  *)
(***************************************************************************)

\* the longest webhook list, in characters
MaxLen == 6

\* the characters of the webhook lists: a letter, the two separators, whitespace
Alphabet == {"a", "=", ",", " "}

Texts == UNION {[1..n -> Alphabet] : n \in 0..MaxLen}

\* a credential variable is unset (None), set to the empty string, or set to a value
CredentialSettings == [{RequiredVars[i] : i \in 1..3} -> {None, "", "secret"}]

\* os.environ with the credential variables set as in c and the webhook list w
EnvOf(c, w) ==
    [k \in {x \in DOMAIN c : c[x] # None} \cup (IF w = NoneText THEN {} ELSE {WebhookVar})
        |-> IF k = WebhookVar THEN w ELSE c[k]]

CompleteCredentials == [k \in {RequiredVars[i] : i \in 1..3} |-> "secret"]

\* the environments: every setting of the credentials, without and with a webhook
\* list, and (the list is read only once the credentials are complete) every webhook
\* list under complete credentials
Environments ==
    {EnvOf(c, w) : c \in CredentialSettings, w \in {NoneText, <<"a", "=", "a">>}}
        \cup {EnvOf(CompleteCredentials, w) : w \in Texts \cup {NoneText}}

\* the config argument of the constructor: absent, or a dict carrying the credentials
NoConfig == [given |-> FALSE]

ConfigDict == [given |-> TRUE, tenant_id |-> "cfg-tenant", client_id |-> "cfg-client",
               client_secret |-> "cfg-secret"]

ChannelNames == {<<"a">>, <<"a", "a">>, <<"b">>}

Titles == {NoneText, <<"T">>}

PostResponses == {RespRaise, RespValue(200), RespValue(204)}

InitConfigSpec ==
    /\ environ \in Environments
    /\ ctor_arg = NoConfig
    /\ provider = Unconstructed
    /\ pc = "idle"
    /\ call = [method |-> "none"]
    /\ locals = NoLocals
    /\ net = <<>>
    /\ ret = Pending

NextConfigSpec ==
    \/ \E config \in {NoConfig, ConfigDict} : Construct(config)
    \/ \E channel_name \in ChannelNames, title \in Titles :
          PostMessageCall(channel_name, <<"h", "i">>, title)
    \/ \E resp \in PostResponses : PostMessageResponse(resp)

SpecConfig == InitConfigSpec /\ [][NextConfigSpec]_vars

(***************************************************************************)
(* The provider specification: a provider constructed from a complete      *)
(* environment; the host calls its methods one after the other and the     *)
(* vendor answers each awaited request in any of the ways it can.          *)
(***************************************************************************)

\* the most teams the enumeration returns
MaxTeams == 7

DefaultEnviron ==
    EnvOf(CompleteCredentials, <<"a", "=", "a">>)

\* team k of an enumeration: with its id, or (k in no_id) with None or "" for an id
TeamAt(k, no_id) ==
    [id           |-> IF k \in no_id THEN (IF k % 2 = 0 THEN "" ELSE None)
                      ELSE "t" \o ToString(k),
     display_name |-> "Team " \o ToString(k)]

TeamLists == {[k \in 1..n |-> TeamAt(k, no_id)] : n \in 0..MaxTeams, no_id \in SUBSET (1..MaxTeams)}

GroupsResponses == {RespRaise, RespNone, RespNoValue} \cup {RespValue(t) : t \in TeamLists}

VendorChannel == [id |-> "c1", display_name |-> "General", description |-> "about"]

VendorChannelBare == [id |-> None, display_name |-> None, description |-> None]

ChannelsResponses ==
    {RespRaise, RespNone, RespNoValue, RespValue(<<VendorChannelBare, VendorChannel>>)}

VendorUser ==
    [id |-> "u1", display_name |-> "Ann", mail |-> "ann@example.com",
     user_principal_name |-> "ann@tenant", department |-> "Eng"]

VendorUserBare ==
    [id |-> None, display_name |-> None, mail |-> None,
     user_principal_name |-> "bob@tenant", department |-> None]

UsersResponses ==
    {RespRaise, RespNone, RespNoValue, RespValue(<<>>), RespValue(<<VendorUserBare, VendorUser>>)}

UserResponses == {RespRaise, RespNone, RespValue(VendorUser), RespValue(VendorUserBare)}

VendorMessage ==
    [id |-> "m1", body |-> [present |-> TRUE, content |-> "hello"],
     from_ |-> [present |-> TRUE, user |-> [present |-> TRUE, display_name |-> "Ann"]],
     created_date_time |-> "2024-01-01 00:00:00+00:00"]

VendorMessageBare ==
    [id |-> None, body |-> [present |-> FALSE, content |-> None],
     from_ |-> [present |-> TRUE, user |-> [present |-> FALSE, display_name |-> None]],
     created_date_time |-> None]

MessagesResponses ==
    {RespRaise, RespNone, RespNoValue, RespValue(<<VendorMessage>>),
     RespValue(<<VendorMessageBare, VendorMessage>>)}

VendorTask(percent_complete) ==
    [id |-> "k1", title |-> "Write", percent_complete |-> percent_complete,
     due_date_time |-> "2024-02-01"]

VendorTaskBare == [id |-> None, title |-> None, percent_complete |-> 0, due_date_time |-> None]

TasksResponses ==
    {RespRaise, RespNone, RespNoValue, RespValue(<<VendorTaskBare>>)}
        \cup {RespValue(<<VendorTask(p)>>) : p \in {0, 50, 99, 100}}

SitesResponses ==
    {RespRaise, RespNone, RespNoValue, RespValue(<<>>), RespValue(<<[id |-> None]>>),
     RespValue(<<[id |-> "site1"], [id |-> "site2"]>>)}

VendorItem ==
    [id |-> "d1", name |-> "a.txt", web_url |-> "https://sp/a.txt", size |-> "2048",
     folder |-> None]

VendorItemBare ==
    [id |-> None, name |-> None, web_url |-> None, size |-> None, folder |-> "folder"]

ChildrenResponses ==
    {RespRaise, RespNone, RespNoValue, RespValue(<<VendorItem>>),
     RespValue(<<VendorItemBare, VendorItem>>)}

PutResponses ==
    {RespRaise, RespNone, RespValue([id |-> "d9", web_url |-> "https://sp/f.txt"]),
     RespValue([id |-> None, web_url |-> None])}

OptionalIds(id) == {None, "", id}

FolderPaths == {None, "", "root", "docs"}

Limits == {1, DefaultLimit}

Init ==
    /\ environ = DefaultEnviron
    /\ ctor_arg = NoConfig
    /\ provider = [state |-> "ok", config |-> InitConfig(NoConfig, DefaultEnviron).value]
    /\ pc = "idle"
    /\ call = [method |-> "none"]
    /\ locals = NoLocals
    /\ net = <<>>
    /\ ret = Pending

Next ==
    \/ \E limit \in {1, 25} : ListUsersCall(limit)
    \/ \E resp \in UsersResponses : ListUsersResponse(resp)
    \/ \E user_id \in {"u1"} : GetUserCall(user_id)
    \/ \E resp \in UserResponses : GetUserResponse(resp)
    \/ \E team_id \in OptionalIds("t1") : ListChannelsCall(team_id)
    \/ \E resp \in ChannelsResponses : ListChannelsDirectResponse(resp)
    \/ \E resp \in GroupsResponses : ListChannelsGroupsResponse(resp)
    \/ \E resp \in ChannelsResponses : ListChannelsChannelsResponse(resp)
    \/ \E limit \in Limits, team_id \in OptionalIds("t1") : GetMessagesCall("c1", limit, team_id)
    \/ \E resp \in MessagesResponses : GetMessagesResponse(resp)
    \/ \E folder_path \in FolderPaths, site_id \in {None, "site9"} :
          ListDocumentsCall(folder_path, site_id)
    \/ \E resp \in SitesResponses : ListDocumentsSitesResponse(resp)
    \/ \E resp \in ChildrenResponses : ListDocumentsChildrenResponse(resp)
    \/ \E folder_path \in FolderPaths, site_id \in {None, "site9"} :
          UploadDocumentCall("f.txt", [type |-> "str", data |-> "hello"], folder_path, site_id)
    \/ \E resp \in SitesResponses : UploadDocumentSitesResponse(resp)
    \/ \E resp \in PutResponses : UploadDocumentPutResponse(resp)
    \/ \E plan_id \in OptionalIds("plan1") : ListTasksCall(plan_id)
    \/ \E resp \in TasksResponses : ListTasksResponse(resp)

Spec == Init /\ [][Next]_vars

(***************************************************************************)
(* Properties of the configuration loader and of post_message              *)
(* (specification SpecConfig)                                              *)
(***************************************************************************)

\* the required variables that are unset or empty in the environment
AbsentVars == {k \in {RequiredVars[i] : i \in 1..3} : k \notin DOMAIN environ \/ environ[k] = ""}

\* the error from_env raises for missing credentials (the spec's ConfigurationError)
IsConfigurationError(e) ==
    e.cls = "ValueError" /\ e.text = "Missing required environment variables"

\* C4: loading fails exactly when a required credential is unset or empty, and the
\* error then names every missing variable and no other, each once; with all three
\* present loading succeeds.
C4_MissingCredentialsNamed ==
    provider.state # "unconstructed" =>
        /\ AbsentVars # {} =>
              /\ provider.state = "raised"
              /\ IsConfigurationError(provider.error)
              /\ {provider.error.detail[i] : i \in 1..Len(provider.error.detail)} = AbsentVars
              /\ Len(provider.error.detail) = Cardinality(AbsentVars)
        /\ AbsentVars = {} => provider.state = "ok"

\* the loader failed with two credentials missing, the first and the last
C4_Witness ==
    /\ provider.state = "raised"
    /\ AbsentVars = {"M365_TENANT_ID", "M365_CLIENT_SECRET"}
    /\ provider.error.detail = <<"M365_TENANT_ID", "M365_CLIENT_SECRET">>

\* the webhook list of the environment ("" when the variable is unset)
WebhookText == IF WebhookVar \in DOMAIN environ THEN environ[WebhookVar] ELSE <<>>

\* the entries of the list s: the maximal comma-free stretches lo..hi (hi = lo - 1 for
\* an empty entry)
EntriesOf(s) ==
    {e \in (1..(Len(s) + 1)) \X (0..Len(s)) :
        /\ e[2] >= e[1] - 1
        /\ e[1] = 1 \/ s[e[1] - 1] = ","
        /\ e[2] = Len(s) \/ s[e[2] + 1] = ","
        /\ \A k \in e[1]..e[2] : s[k] # ","}

EntriesWithEq(s) == {e \in EntriesOf(s) : \E k \in e[1]..e[2] : s[k] = "="}

\* the position of the first "=" of entry e
FirstEq(s, e) == CHOOSE k \in e[1]..e[2] : s[k] = "=" /\ \A j \in e[1]..(k - 1) : s[j] # "="

\* s[lo..hi] without its surrounding spaces
Trimmed(s, lo, hi) ==
    LET inner == {k \in lo..hi : s[k] # " "}
    IN  IF inner = {} THEN <<>>
        ELSE SubSeq(s, CHOOSE a \in inner : \A k \in inner : a <= k,
                       CHOOSE b \in inner : \A k \in inner : b >= k)

EntryName(s, e) == Trimmed(s, e[1], FirstEq(s, e) - 1)

EntryUrl(s, e) == Trimmed(s, FirstEq(s, e) + 1, e[2])

\* the last entry of s that names n
LastEntryNaming(s, n) ==
    CHOOSE e \in EntriesWithEq(s) :
        /\ EntryName(s, e) = n
        /\ \A f \in EntriesWithEq(s) : EntryName(s, f) = n => f[1] <= e[1]

\* C5: the parsed mapping has exactly the trimmed names of the entries that contain
\* "=", split at the first "="; each name maps to the trimmed URL of its last entry;
\* entries without "=" add nothing; an unset or empty list gives the empty mapping.
C5_WebhookMapping ==
    provider.state = "ok" =>
        LET s == WebhookText
            w == provider.config.webhooks
        IN  /\ DOMAIN w = {EntryName(s, e) : e \in EntriesWithEq(s)}
            /\ \A n \in DOMAIN w : w[n] = EntryUrl(s, LastEntryNaming(s, n))
            /\ s = <<>> => DOMAIN w = {}

\* "a=,a=a" was parsed: the name occurs twice and the URL of the last entry is kept
C5_Witness ==
    /\ provider.state = "ok"
    /\ WebhookText = <<"a", "=", ",", "a", "=", "a">>
    /\ DOMAIN provider.config.webhooks = {<<"a">>}
    /\ provider.config.webhooks[<<"a">>] = <<"a">>

\* the error post_message raises for an unresolved channel (the spec's NotFoundError)
IsNotFoundError(e) == e.cls = "ValueError" /\ e.text = "No webhook configured for channel"

PostNotFound == pc = "idle" /\ ret.kind = "raise" /\ IsNotFoundError(ret.error)

\* what post_message must have done, given whether the channel name counts as resolved
PostMessageContract(resolved) ==
    LET w == provider.config.webhooks
        n == call.channel_name
    IN  /\ PostNotFound <=> ~resolved
        /\ PostNotFound => ret.error.detail[2] = DOMAIN w /\ net = <<>>
        /\ resolved => /\ Len(net) = 1
                       /\ net[1].request.op = "http.post"
                       /\ net[1].request.url = w[n]

\* C6 as amended: post_message fails with NotFoundError exactly when the channel name
\* is not configured or is configured with an empty URL; the error lists all configured
\* names and nothing is POSTed; a name with a non-empty URL is POSTed to that URL.
C6_UnresolvedChannelNotFound ==
    call.method = "post_message" =>
        PostMessageContract(/\ call.channel_name \in DOMAIN provider.config.webhooks
                            /\ provider.config.webhooks[call.channel_name] # <<>>)

\* C6 as claimed: every configured name is POSTed to and never fails with NotFoundError
C6_AsClaimed ==
    call.method = "post_message" =>
        PostMessageContract(call.channel_name \in DOMAIN provider.config.webhooks)

\* post_message failed with NotFoundError for a name that is configured with an empty
\* URL, and the error lists that very name among the configured ones
C6_Witness ==
    /\ call.method = "post_message"
    /\ PostNotFound
    /\ call.channel_name \in DOMAIN provider.config.webhooks
    /\ provider.config.webhooks[call.channel_name] = <<>>
    /\ call.channel_name \in ret.error.detail[2]

\* C8: a provider constructed with a config dict that carries the three credentials is
\* constructed, whatever the environment, and holds the dict's values; one constructed
\* without a config holds what the environment gives.
C8_ConfigArgumentUsed ==
    provider.state # "unconstructed" =>
        IF ctor_arg.given
        THEN /\ provider.state = "ok"
             /\ provider.config.tenant_id = ctor_arg.tenant_id
             /\ provider.config.client_id = ctor_arg.client_id
             /\ provider.config.client_secret = ctor_arg.client_secret
        ELSE AbsentVars = {} <=> provider.state = "ok"

(***************************************************************************)
(* Properties of the provider's methods (specification Spec)               *)
(***************************************************************************)

\* list_channels was called without a team_id (None or empty)
AggregateCall == call.method = "list_channels" /\ call.team_id \in {None, ""}

\* the teams the enumeration returned, once it has answered with a list
EnumeratedTeams ==
    IF net # <<>> /\ net[1].request.op = "groups.get" /\ net[1].resp.kind = "value"
    THEN net[1].resp.value ELSE <<>>

\* the per-team channel fetches issued so far, in the order issued
ChannelFetches == SelectSeq(net, LAMBDA e : e.request.op = "teams.channels.get")

\* the positions, among the first five enumerated teams, of the teams that have an id
FirstFiveWithId ==
    {k \in 1..Len(EnumeratedTeams) : k <= 5 /\ EnumeratedTeams[k].id \notin {None, ""}}

\* the r-th smallest element of a set of positions
RECURSIVE Nth(_, _)
Nth(S, r) ==
    LET least == CHOOSE k \in S : \A j \in S : k <= j
    IN  IF r = 1 THEN least ELSE Nth(S \ {least}, r - 1)

\* the channels one answered fetch contributes, annotated with the team it was for
Contribution(fetch, team) ==
    IF fetch.resp.kind = "value"
    THEN [k \in 1..Len(fetch.resp.value) |->
             [id          |-> IF fetch.resp.value[k].id \in {None, ""} THEN ""
                              ELSE fetch.resp.value[k].id,
              name        |-> IF fetch.resp.value[k].display_name \in {None, ""} THEN ""
                              ELSE fetch.resp.value[k].display_name,
              description |-> fetch.resp.value[k].description,
              team_id     |-> team.id,
              team_name   |-> team.display_name]]
    ELSE <<>>

\* the channels of the first r fetches, in the order the teams were enumerated
RECURSIVE Aggregate(_)
Aggregate(r) ==
    IF r = 0 THEN <<>>
    ELSE Aggregate(r - 1)
            \o Contribution(ChannelFetches[r], EnumeratedTeams[Nth(FirstFiveWithId, r)])

\* C1: list_channels without a team_id never fails because of a per-team fetch (it
\* raises only when the enumeration itself failed, before any fetch), and it returns
\* the channels of every queried team whose fetch succeeded, in enumeration order,
\* annotated with that team's id and name; teams whose fetch raised contribute nothing.
C1_FailedTeamsSkipped ==
    (AggregateCall /\ pc = "idle") =>
        /\ ret.kind = "raise" => Len(net) = 1 /\ net[1].resp.kind \in {"raise", "none"}
        /\ ret.kind = "return" =>
              /\ Len(ChannelFetches) = Cardinality(FirstFiveWithId)
              /\ ret.value = Aggregate(Len(ChannelFetches))

\* the call returned channels although the fetch for an earlier team had raised
C1_Witness ==
    /\ AggregateCall
    /\ pc = "idle"
    /\ ret.kind = "return"
    /\ Len(ChannelFetches) = 3
    /\ ChannelFetches[1].resp.kind = "value"
    /\ ChannelFetches[2].resp.kind = "raise"
    /\ ChannelFetches[3].resp.kind = "value"
    /\ Len(ret.value) = 4

\* C2: list_channels without a team_id issues at most 5 per-team channel fetches,
\* each for a different team among the first 5 the enumeration returned; a team among
\* the first 5 that has no id is not replaced by a later team.
C2_AtMostFiveTeamsQueried ==
    AggregateCall =>
        /\ Len(ChannelFetches) <= 5
        /\ Len(ChannelFetches) <= Cardinality(FirstFiveWithId)
        /\ \A r \in 1..Len(ChannelFetches) :
              ChannelFetches[r].request.team_id = EnumeratedTeams[Nth(FirstFiveWithId, r)].id

\* seven teams were enumerated, the third without an id; the call is over and the
\* channels of four teams were fetched, the last one for the fifth team
C2_Witness ==
    /\ AggregateCall
    /\ pc = "idle"
    /\ Len(EnumeratedTeams) = 7
    /\ EnumeratedTeams[3].id = None
    /\ \A k \in {6, 7} : EnumeratedTeams[k].id \notin {None, ""}
    /\ Len(ChannelFetches) = 4
    /\ ChannelFetches[4].request.team_id = EnumeratedTeams[5].id

\* the error get_messages raises without a team_id (the spec's InvalidArgumentError)
IsInvalidArgumentError(e) ==
    e.cls = "ValueError" /\ e.text = "team_id is required for M365 channel messages"

\* C3: get_messages with team_id None or empty has failed with InvalidArgumentError
\* and has issued no network call, whatever channel_id and limit are.
C3_TeamIdRequired ==
    (call.method = "get_messages" /\ call.team_id \in {None, ""}) =>
        /\ pc = "idle"
        /\ ret.kind = "raise"
        /\ IsInvalidArgumentError(ret.error)
        /\ net = <<>>

\* get_messages was called with an empty team_id and the default limit
C3_Witness ==
    /\ call.method = "get_messages"
    /\ call.team_id = ""
    /\ call.limit = 20
    /\ ret.kind = "raise"

\* C9: list_tasks with plan_id None or empty has returned the empty list and has
\* issued no network call; a Planner tasks request is only ever issued by list_tasks
\* for the plan_id it was given.
C9_NoPlanNoCall ==
    /\ (call.method = "list_tasks" /\ call.plan_id \in {None, ""}) =>
          /\ pc = "idle"
          /\ ret = Return(<<>>)
          /\ net = <<>>
    /\ \A i \in 1..Len(net) :
          net[i].request.op = "planner.plans.tasks.get" =>
              /\ call.method = "list_tasks"
              /\ call.plan_id \notin {None, ""}
              /\ net[i].request.plan_id = call.plan_id

\* list_tasks was called without a plan_id and has returned
C9_Witness ==
    /\ call.method = "list_tasks"
    /\ call.plan_id = None
    /\ pc = "idle"
    /\ ret.kind = "return"

\* the methods that return one record, and those that return a list of records
RecordMethods == {"get_user", "upload_document"}

RecordListMethods ==
    {"list_users", "list_channels", "get_messages", "list_documents", "list_tasks"}

\* C7: no record returned by any method has a None id.
C7_IdNeverNone ==
    ret.kind = "return" =>
        /\ call.method \in RecordMethods => ret.value.id # None
        /\ call.method \in RecordListMethods =>
              \A k \in 1..Len(ret.value) : ret.value[k].id # None

\* C10: every Document of a listing of the drive root (folder_path absent, or "root")
\* has path "/"; for any other folder_path the path is that folder_path.
C10_RootPathIsSlash ==
    (call.method = "list_documents" /\ ret.kind = "return") =>
        \A k \in 1..Len(ret.value) :
            ret.value[k].path = IF call.folder_path \in {None, "", "root"} THEN "/"
                                ELSE call.folder_path

====
